---- MODULE Spec2Model ----
(***************************************************************************)
(* SimpleBackup (backup_automator.py): main(), BackupConfig and            *)
(* BackupManager as a state machine.  One action per call that main() and  *)
(* run_backup() make; the backup directory, the clock, the two counters    *)
(* and the trace of the calls made are the state.                          *)
(***************************************************************************)
EXTENDS Integers, Sequences, FiniteSets, TLC

(* ------------------------------------------------------------------ *)
(* Bounds of the model                                                *)
(* ------------------------------------------------------------------ *)

\* configured targets (websites plus databases) in one configuration
MaxTargets == 2
\* configured targets in one configuration when every shape of target is drawn
MaxRichTargets == 1
\* largest retention_days a configuration of the model carries
MaxRetention == 1
\* clock ticks that may pass between two steps of a run
MaxDelay == 1

(* ------------------------------------------------------------------ *)
(* Time                                                               *)
(* ------------------------------------------------------------------ *)

\* The clock (datetime.now().timestamp(), st_mtime) has sub-second
\* resolution; the model counts it in ticks of half a second.
TicksPerSecond == 2
\* 24 * 3600, the seconds of one retention day
SecondsPerDay == 86400
DayTicks == SecondsPerDay * TicksPerSecond
\* the clock reading when main() starts
StartTime == 10 * DayTicks

\* strftime('%Y%m%d_%H%M%S'): the clock truncated to whole seconds
get_timestamp(t) ==
    t \div TicksPerSecond

(* ------------------------------------------------------------------ *)
(* Configuration documents                                            *)
(* ------------------------------------------------------------------ *)

\* a key that the JSON document does not carry
Absent == "<absent>"
Names == {"a", "b"}
\* website paths of the model, and the ones that exist on disk
SitePaths == {"/srv/www", "/srv/gone"}
ExistingPaths == {"/srv/www"}
TypeStrings == {"mysql", "MariaDB", "postgresql", "Postgres", "Oracle"}
EnabledValues == {"true", "false", Absent}

\* str.lower() on the type strings of the model
Lower(s) ==
    CASE s = "MariaDB" -> "mariadb"
      [] s = "Postgres" -> "postgres"
      [] s = "Oracle" -> "oracle"
      [] OTHER -> s

\* dict.get(key, default) on a field that may be absent
Get(value, default) ==
    IF value = Absent THEN default ELSE value

\* A number that may be absent is <<>>, or <<n>> when the document carries n.
Some(n) == <<n>>
Missing == <<>>
GetNumber(value, default) ==
    IF value = Missing THEN default ELSE value[1]

\* target.get('enabled', False)
IsEnabled(target) ==
    Get(target.enabled, "false") = "true"

\* every website and database entry a document of the model may carry
AllWebsiteTargets ==
    [name : Names, path : SitePaths, enabled : EnabledValues]

AllDatabaseTargets ==
    [name : Names, type : TypeStrings \cup {Absent}, enabled : EnabledValues]

\* Where several targets are configured the model draws them from fewer
\* shapes.  A disabled target is only ever asked for its name, and only to
\* log it (lines 117-119 and 249-251 return before any other field is
\* read), so it gets one fixed value for every other field; an enabled
\* database carries one spelling of a supported or an unsupported type.
WebsiteTargets ==
    {w \in AllWebsiteTargets :
        w.enabled # "true" => (w.path = "/srv/www" /\ w.name = "a")}

DatabaseTargets ==
    {d \in AllDatabaseTargets :
        /\ d.name = "a"
        /\ d.type \in {"mysql", "Oracle"}
        /\ d.enabled # "true" => d.type = "mysql"}

SeqsOfLen(S, k) ==
    [1..k -> S]

\* the documents with n targets in all, drawn from the sets W and D
ConfigsOver(W, D, n) ==
    UNION {[retention_days : {Some(r) : r \in 0..MaxRetention},
            websites : SeqsOfLen(W, a),
            databases : SeqsOfLen(D, n - a)] : a \in 0..n}

\* documents with up to MaxTargets targets
Configs ==
    UNION {ConfigsOver(WebsiteTargets, DatabaseTargets, n) : n \in 0..MaxTargets}

\* documents with up to MaxRichTargets targets of every shape
RichConfigs ==
    UNION {ConfigsOver(AllWebsiteTargets, AllDatabaseTargets, n) : n \in 0..MaxRichTargets}

\* the document create_default_config writes and returns
DefaultRetentionDays == 7
create_default_config ==
    [retention_days |-> Some(DefaultRetentionDays),
     websites |-> <<[name |-> "example_site", path |-> "/var/www/html/example",
                     enabled |-> "false"]>>,
     databases |-> <<[name |-> "example_db", type |-> "mysql",
                      enabled |-> "false"]>>]

\* the configuration before load_config has run
NoConfig ==
    [retention_days |-> Missing, websites |-> <<>>, databases |-> <<>>]

(* ------------------------------------------------------------------ *)
(* The backup directory                                               *)
(* ------------------------------------------------------------------ *)

\* A directory entry's name: its stem and its dot-separated extensions.
FileName(stem, exts) ==
    [stem |-> stem, exts |-> exts]

\* pathlib's Path.suffix: the last extension with its dot, or ''
Suffix(name) ==
    IF name.exts = <<>> THEN "" ELSE "." \o name.exts[Len(name.exts)]

\* the suffixes cleanup_old_backups recognizes
RecognizedSuffixes == {".gz", ".sql", ".tar"}

\* an entry of the directory: a regular file or a subdirectory
Entry(kind, mtime, content) ==
    [kind |-> kind, mtime |-> mtime, content |-> content]

LogsDir == FileName(<<"logs">>, <<>>)
OldArchive == FileName(<<"a", "website", 0>>, <<"tar", "gz">>)
NotesFile == FileName(<<"notes">>, <<"txt">>)

\* What backup_dir holds when main() starts: an archive of an earlier run,
\* one day and one tick old, and a file that is no backup.
InitialDir ==
    (OldArchive :> Entry("file", StartTime - DayTicks - 1, <<"earlier", 0, "complete">>))
    @@ (NotesFile :> Entry("file", StartTime - 3 * DayTicks, <<"notes", 0, "complete">>))

\* fs with the entry at name written (created or truncated and rewritten)
WriteFile(fs, name, t, content) ==
    [n \in DOMAIN fs \cup {name} |->
        IF n = name THEN Entry("file", t, content) ELSE fs[n]]

\* Path.unlink() guarded by Path.exists()
UnlinkIfExists(fs, name) ==
    [n \in DOMAIN fs \ {name} |-> fs[n]]

\* Path.mkdir(exist_ok=True)
Mkdir(fs, name, t) ==
    IF name \in DOMAIN fs THEN fs
    ELSE [n \in DOMAIN fs \cup {name} |->
            IF n = name THEN Entry("dir", t, <<"dir", 0, "complete">>) ELSE fs[n]]

(* ------------------------------------------------------------------ *)
(* Results                                                            *)
(* ------------------------------------------------------------------ *)

NoPath == FileName(<<>>, <<>>)
\* a function's return value: a backup path, or None
Returned(path) == [ok |-> TRUE, path |-> path]
None == [ok |-> FALSE, path |-> NoPath]

NoProcs == {}
\* the return codes of the pipeline's two processes; none before both are waited for
NoCodes == <<>>

\* what one call of a backup function leaves behind
Outcome(result, fs, dest, started, reaped, codes) ==
    [result |-> result, files |-> fs, dest |-> dest,
     started |-> started, reaped |-> reaped, codes |-> codes]

(* ------------------------------------------------------------------ *)
(* BackupManager.backup_website                                       *)
(* ------------------------------------------------------------------ *)

\* how tarfile.open / tar.add end: the archive is written; open raises
\* before the file exists; add raises after the file was created
ArchiveOutcomes == {"ok", "open_error", "add_error"}

\* backup_website without the test of site_path.exists() (lines 122-124)
backup_website_unchecked_path(website, idx, t, fs, tar) ==
    IF ~IsEnabled(website)
    THEN Outcome(None, fs, NoPath, NoProcs, NoProcs, NoCodes)
    ELSE
      LET backup_path ==
              FileName(<<website.name, "website", get_timestamp(t)>>, <<"tar", "gz">>)
      IN  CASE tar = "ok" ->
                 Outcome(Returned(backup_path),
                         WriteFile(fs, backup_path, t, <<"website", idx, "complete">>),
                         backup_path, NoProcs, NoProcs, NoCodes)
            [] tar = "add_error" ->
                 Outcome(None,
                         WriteFile(fs, backup_path, t, <<"website", idx, "partial">>),
                         backup_path, NoProcs, NoProcs, NoCodes)
            [] OTHER ->
                 Outcome(None, fs, backup_path, NoProcs, NoProcs, NoCodes)

backup_website(website, idx, t, fs, tar) ==
    IF ~IsEnabled(website)
    THEN Outcome(None, fs, NoPath, NoProcs, NoProcs, NoCodes)
    ELSE IF website.path \notin ExistingPaths
    THEN Outcome(None, fs, NoPath, NoProcs, NoProcs, NoCodes)
    ELSE
      LET backup_path ==
              FileName(<<website.name, "website", get_timestamp(t)>>, <<"tar", "gz">>)
      IN  CASE tar = "ok" ->
                 Outcome(Returned(backup_path),
                         WriteFile(fs, backup_path, t, <<"website", idx, "complete">>),
                         backup_path, NoProcs, NoProcs, NoCodes)
            [] tar = "add_error" ->
                 Outcome(None,
                         WriteFile(fs, backup_path, t, <<"website", idx, "partial">>),
                         backup_path, NoProcs, NoProcs, NoCodes)
            [] OTHER ->
                 Outcome(None, fs,
                         backup_path, NoProcs, NoProcs, NoCodes)

(* ------------------------------------------------------------------ *)
(* BackupManager.backup_mysql_database / backup_postgresql_database   *)
(* ------------------------------------------------------------------ *)

\* What the environment does to one dump: whether the dump utility and
\* gzip are found on the PATH when Popen looks for them, and the exit
\* codes of the two processes.  gzip is only looked for once the dump
\* utility has started, and exit codes exist only once both have.
ExitCodes == {0, 1}
PipeEnvs ==
    {e \in [dump_found : BOOLEAN, gzip_found : BOOLEAN,
            dump_rc : ExitCodes, gzip_rc : ExitCodes] :
        /\ ~e.dump_found => e.gzip_found
        /\ ~(e.dump_found /\ e.gzip_found) => (e.dump_rc = 0 /\ e.gzip_rc = 0)}

\* dump_pipeline with the test of gzip's return code (lines 178-179 and
\* 231-232) left out
dump_pipeline_ignores_gzip(flavour, tool, db, idx, t, fs, env) ==
    LET backup_path ==
            FileName(<<db.name, flavour, get_timestamp(t)>>, <<"sql", "gz">>)
        opened == WriteFile(fs, backup_path, t, <<flavour, idx, "empty">>)
    IN  IF ~env.dump_found
        THEN Outcome(None, opened, backup_path, NoProcs, NoProcs, NoCodes)
        ELSE IF ~env.gzip_found
        THEN Outcome(None, opened, backup_path, {tool}, NoProcs, NoCodes)
        ELSE IF env.dump_rc # 0
        THEN Outcome(None, UnlinkIfExists(opened, backup_path),
                     backup_path, {tool, "gzip"}, {tool, "gzip"},
                     <<env.dump_rc, env.gzip_rc>>)
        ELSE Outcome(Returned(backup_path),
                     WriteFile(fs, backup_path, t, <<flavour, idx, "complete">>),
                     backup_path, {tool, "gzip"}, {tool, "gzip"},
                     <<env.dump_rc, env.gzip_rc>>)

\* The body shared by the two dump functions (they differ in the command
\* line and in the word they put in the file name): open the
\* destination, start the dump utility, start gzip on its output, wait for
\* gzip, wait for the dump utility, look at the two return codes.
dump_pipeline(flavour, tool, db, idx, t, fs, env) ==
    LET backup_path ==
            FileName(<<db.name, flavour, get_timestamp(t)>>, <<"sql", "gz">>)
        \* open(backup_path, 'wb')
        opened == WriteFile(fs, backup_path, t, <<flavour, idx, "empty">>)
    IN  IF ~env.dump_found
        THEN \* Popen(cmd) raises FileNotFoundError: lines 185-187 / 238-240
             Outcome(None, opened,
                     backup_path, NoProcs, NoProcs, NoCodes)
        ELSE IF ~env.gzip_found
        THEN \* Popen(['gzip']) raises FileNotFoundError, same handler
             Outcome(None, opened,
                     backup_path, {tool}, NoProcs, NoCodes)
        ELSE IF env.dump_rc # 0 \/ env.gzip_rc # 0
        THEN \* raise Exception; the handler unlinks the destination
             Outcome(None, UnlinkIfExists(opened, backup_path),
                     backup_path, {tool, "gzip"}, {tool, "gzip"},
                     <<env.dump_rc, env.gzip_rc>>)
        ELSE Outcome(Returned(backup_path),
                     WriteFile(fs, backup_path, t, <<flavour, idx, "complete">>),
                     backup_path, {tool, "gzip"}, {tool, "gzip"},
                     <<env.dump_rc, env.gzip_rc>>)

backup_mysql_database(db, idx, t, fs, env) ==
    dump_pipeline("mysql", "mysqldump", db, idx, t, fs, env)

backup_postgresql_database(db, idx, t, fs, env) ==
    dump_pipeline("postgresql", "pg_dump", db, idx, t, fs, env)

(* ------------------------------------------------------------------ *)
(* BackupManager.backup_database                                      *)
(* ------------------------------------------------------------------ *)

\* backup_database with the final else (lines 259-261) falling back to MySQL
backup_database_defaults_to_mysql(db, idx, t, fs, env) ==
    IF ~IsEnabled(db)
    THEN Outcome(None, fs, NoPath, NoProcs, NoProcs, NoCodes)
    ELSE
      LET db_type == Lower(Get(db.type, "mysql"))
      IN  IF db_type = "postgresql" \/ db_type = "postgres"
          THEN backup_postgresql_database(db, idx, t, fs, env)
          ELSE backup_mysql_database(db, idx, t, fs, env)

backup_database(db, idx, t, fs, env) ==
    IF ~IsEnabled(db)
    THEN Outcome(None, fs, NoPath, NoProcs, NoProcs, NoCodes)
    ELSE
      LET db_type == Lower(Get(db.type, "mysql"))
      IN  IF db_type = "mysql" \/ db_type = "mariadb"
          THEN backup_mysql_database(db, idx, t, fs, env)
          ELSE IF db_type = "postgresql" \/ db_type = "postgres"
          THEN backup_postgresql_database(db, idx, t, fs, env)
          ELSE Outcome(None, fs,
                       NoPath, NoProcs, NoProcs, NoCodes)

(* ------------------------------------------------------------------ *)
(* BackupManager.cleanup_old_backups                                  *)
(* ------------------------------------------------------------------ *)

\* retention_days * 24 * 3600, in ticks of the clock
RetentionTicks(retention_days) ==
    retention_days * SecondsPerDay * TicksPerSecond

\* Expired with `>=` for the `>` of line 278
ExpiredAtThreshold(name, entry, current_time, retention_days) ==
    /\ entry.kind = "file"
    /\ Suffix(name) \in RecognizedSuffixes
    /\ current_time - entry.mtime >= RetentionTicks(retention_days)

\* the test of lines 275-278 on one entry of the directory
Expired(name, entry, current_time, retention_days) ==
    /\ entry.kind = "file"
    /\ Suffix(name) \in RecognizedSuffixes
    /\ current_time - entry.mtime > RetentionTicks(retention_days)

\* cleanup_old_backups comparing the age with zero, not with the retention
cleanup_ignores_retention(fs, current_time, retention_days) ==
    [n \in {m \in DOMAIN fs : ~Expired(m, fs[m], current_time, 0)} |-> fs[n]]

cleanup_old_backups(fs, current_time, retention_days) ==
    [n \in {m \in DOMAIN fs : ~Expired(m, fs[m], current_time, retention_days)}
        |-> fs[n]]

(* ------------------------------------------------------------------ *)
(* State                                                              *)
(* ------------------------------------------------------------------ *)

VARIABLES
    pc,             \* where main() is
    args_init,      \* args.init
    config_file,    \* the file at args.config: absent, invalid JSON, or a document
    config,         \* config_manager.config
    files,          \* the entries of backup_dir
    now,            \* the clock
    success_count,
    fail_count,
    i,              \* index of the next target of the loop that is running
    calls,          \* the calls run_backup has made, with what each returned
    exit_code       \* the argument of sys.exit, NotExited until then

vars ==
    <<pc, args_init, config_file, config, files, now, success_count, fail_count,
      i, calls, exit_code>>

NotExited == -1

Call(fn, idx, o) ==
    [fn |-> fn, idx |-> idx, result |-> o.result, dest |-> o.dest,
     started |-> o.started, reaped |-> o.reaped, codes |-> o.codes]

ConfigFiles ==
    {[state |-> "absent", doc |-> NoConfig], [state |-> "invalid", doc |-> NoConfig]}
    \cup {[state |-> "valid", doc |-> c] : c \in Configs}

Init ==
    /\ pc = "start"
    /\ args_init \in BOOLEAN
    /\ config_file \in ConfigFiles
    /\ config = NoConfig
    /\ files = InitialDir
    /\ now = StartTime
    /\ success_count = 0
    /\ fail_count = 0
    /\ i = 0
    /\ calls = <<>>
    /\ exit_code = NotExited

(* ------------------------------------------------------------------ *)
(* BackupConfig.__init__ / load_config                                *)
(* ------------------------------------------------------------------ *)

Load ==
    /\ pc = "start"
    /\ CASE config_file.state = "absent" ->
              /\ config' = create_default_config
              /\ config_file' = [state |-> "valid", doc |-> create_default_config]
              /\ pc' = "loaded"
              /\ UNCHANGED exit_code
         [] config_file.state = "invalid" ->
              /\ exit_code' = 1
              /\ pc' = "exit"
              /\ UNCHANGED <<config, config_file>>
         [] OTHER ->
              /\ config' = config_file.doc
              /\ pc' = "loaded"
              /\ UNCHANGED <<config_file, exit_code>>
    /\ UNCHANGED <<args_init, files, now, success_count, fail_count, i, calls>>

(* ------------------------------------------------------------------ *)
(* main                                                               *)
(* ------------------------------------------------------------------ *)

\* lines 356-359: --init
InitExit ==
    /\ pc = "loaded"
    /\ args_init
    /\ exit_code' = 0
    /\ pc' = "exit"
    /\ UNCHANGED <<args_init, config_file, config, files, now, success_count,
                   fail_count, i, calls>>

\* NextStage leaving the run for the cleanup once the websites are done
NextStageSkipsDatabases(cfg, stage, k) ==
    IF stage = "websites" /\ k < Len(cfg.websites)
    THEN <<"websites", k + 1>>
    ELSE IF stage = "databases" /\ k < Len(cfg.databases)
    THEN <<"databases", k + 1>>
    ELSE <<"cleanup", 0>>

\* The loop of run_backup that runs after target k of `stage` is done:
\* the websites in listed order, then the databases, then the cleanup.
NextStage(cfg, stage, k) ==
    IF stage = "websites" /\ k < Len(cfg.websites)
    THEN <<"websites", k + 1>>
    ELSE IF stage = "websites" /\ Len(cfg.databases) > 0
    THEN <<"databases", 1>>
    ELSE IF stage = "databases" /\ k < Len(cfg.databases)
    THEN <<"databases", k + 1>>
    ELSE <<"cleanup", 0>>

\* lines 303-306 and 311-314: `if result:` counts the call
Count(counts, result) ==
    IF result.ok
    THEN [success |-> counts.success + 1, fail |-> counts.fail]
    ELSE [success |-> counts.success, fail |-> counts.fail + 1]

\* lines 362-363 up to the first loop: BackupManager(config), which makes
\* backup_dir and backup_dir/logs, and the head of run_backup
StartRun ==
    /\ pc = "loaded"
    /\ ~args_init
    /\ files' = Mkdir(files, LogsDir, now)
    /\ success_count' = 0
    /\ fail_count' = 0
    /\ pc' = NextStage(config, "websites", 0)[1]
    /\ i' = NextStage(config, "websites", 0)[2]
    /\ UNCHANGED <<args_init, config_file, config, now, calls, exit_code>>

(* ------------------------------------------------------------------ *)
(* BackupManager.run_backup                                           *)
(* ------------------------------------------------------------------ *)

\* one pass of the loop over config['websites'], lines 301-306
RunWebsite ==
    /\ pc = "websites"
    /\ \E d \in 0..MaxDelay, tar \in ArchiveOutcomes :
         LET t == now + d
             o == backup_website(config.websites[i], i, t, files, tar)
             counts == Count([success |-> success_count, fail |-> fail_count], o.result)
         IN  /\ now' = t
             /\ files' = o.files
             /\ calls' = Append(calls, Call("backup_website", i, o))
             /\ success_count' = counts.success
             /\ fail_count' = counts.fail
    /\ pc' = NextStage(config, "websites", i)[1]
    /\ i' = NextStage(config, "websites", i)[2]
    /\ UNCHANGED <<args_init, config_file, config, exit_code>>

\* one pass of the loop over config['databases'], lines 309-314
RunDatabase ==
    /\ pc = "databases"
    /\ \E d \in 0..MaxDelay, env \in PipeEnvs :
         LET t == now + d
             o == backup_database(config.databases[i], i, t, files, env)
             counts == Count([success |-> success_count, fail |-> fail_count], o.result)
         IN  /\ now' = t
             /\ files' = o.files
             /\ calls' = Append(calls, Call("backup_database", i, o))
             /\ success_count' = counts.success
             /\ fail_count' = counts.fail
    /\ pc' = NextStage(config, "databases", i)[1]
    /\ i' = NextStage(config, "databases", i)[2]
    /\ UNCHANGED <<args_init, config_file, config, exit_code>>

\* lines 316-323: the retention sweep, then the return of the two counts
Cleanup ==
    /\ pc = "cleanup"
    /\ \E d \in 0..MaxDelay :
         LET current_time == now + d
             retention_days == GetNumber(config.retention_days, DefaultRetentionDays)
             swept == cleanup_old_backups(files, current_time, retention_days)
         IN  /\ now' = current_time
             /\ files' = swept
             /\ calls' = Append(calls,
                    Call("cleanup_old_backups", 0,
                         Outcome(None, swept, NoPath, NoProcs, NoProcs, NoCodes)))
    /\ pc' = "returned"
    /\ UNCHANGED <<args_init, config_file, config, success_count, fail_count, i,
                   exit_code>>

\* line 366: sys.exit(0 if failed == 0 else 1)
Exit ==
    /\ pc = "returned"
    /\ exit_code' = (IF fail_count = 0 THEN 0 ELSE 1)
    /\ pc' = "exit"
    /\ UNCHANGED <<args_init, config_file, config, files, now, success_count,
                   fail_count, i, calls>>

Next ==
    \/ Load
    \/ InitExit
    \/ StartRun
    \/ RunWebsite
    \/ RunDatabase
    \/ Cleanup
    \/ Exit

Spec == Init /\ [][Next]_vars

\* the same program, started on a document with targets of every shape
InitTarget ==
    /\ pc = "start"
    /\ args_init \in BOOLEAN
    /\ config_file \in {[state |-> "valid", doc |-> c] : c \in RichConfigs}
    /\ config = NoConfig
    /\ files = InitialDir
    /\ now = StartTime
    /\ success_count = 0
    /\ fail_count = 0
    /\ i = 0
    /\ calls = <<>>
    /\ exit_code = NotExited

SpecTarget == InitTarget /\ [][Next]_vars


(* ------------------------------------------------------------------ *)
(* The retention sweep on directories of every shape                  *)
(* ------------------------------------------------------------------ *)

SqlDump == FileName(<<"a", "mysql", 0>>, <<"sql">>)
TarFile == FileName(<<"bundle">>, <<"tar">>)
Readme == FileName(<<"README">>, <<>>)
GzDir == FileName(<<"old">>, <<"gz">>)

\* the ages, at the start of the sweep, the model gives a backup file under
\* retention r: a day more, a day less, exactly r days, one tick more
SweepAges(r) ==
    {(r + 1) * DayTicks, (r - 1) * DayTicks, r * DayTicks, r * DayTicks + 1}

\* the directories the sweep is started on under retention r
SweepDirs(r) ==
    {  (OldArchive :> Entry("file", StartTime - a1, <<"earlier", 0, "complete">>))
    @@ (SqlDump :> Entry("file", StartTime - a2, <<"earlier", 0, "complete">>))
    @@ (TarFile :> Entry("file", StartTime - a3, <<"earlier", 0, "complete">>))
    @@ (NotesFile :> Entry("file", StartTime - a4, <<"notes", 0, "complete">>))
    @@ (Readme :> Entry("file", StartTime - (r + 1) * DayTicks, <<"notes", 0, "complete">>))
    @@ (GzDir :> Entry("dir", StartTime - (r + 1) * DayTicks, <<"dir", 0, "complete">>))
    @@ (LogsDir :> Entry("dir", StartTime - (r + 1) * DayTicks, <<"dir", 0, "complete">>))
       : a1 \in SweepAges(r), a2 \in SweepAges(r), a3 \in SweepAges(r),
         a4 \in {(r + 1) * DayTicks, (r - 1) * DayTicks}}

\* run_backup about to call cleanup_old_backups, no target configured
InitSweep ==
    /\ pc = "cleanup"
    /\ args_init = FALSE
    /\ \E r \in {Missing} \cup {Some(n) : n \in 0..MaxRetention} :
         /\ config = [retention_days |-> r, websites |-> <<>>, databases |-> <<>>]
         /\ config_file = [state |-> "valid", doc |-> config]
         /\ files \in SweepDirs(GetNumber(r, DefaultRetentionDays))
    /\ now = StartTime
    /\ success_count = 0
    /\ fail_count = 0
    /\ i = 0
    /\ calls = <<>>
    /\ exit_code = NotExited

NextSweep ==
    \/ Cleanup
    \/ Exit

SpecSweep == InitSweep /\ [][NextSweep]_vars


(* ------------------------------------------------------------------ *)
(* Properties                                                         *)
(* ------------------------------------------------------------------ *)

\* the target a call of the trace was made for
TargetOf(c) ==
    IF c.fn = "backup_website" THEN config.websites[c.idx]
    ELSE config.databases[c.idx]

IsTargetCall(c) ==
    c.fn \in {"backup_website", "backup_database"}

\* `enabled` is true: neither false nor missing
Enabled(target) ==
    target.enabled = "true"

TargetCalls ==
    {k \in 1..Len(calls) : IsTargetCall(calls[k])}

EnabledIn(targets) ==
    {k \in 1..Len(targets) : Enabled(targets[k])}

\* run_backup has returned
RunReturned ==
    pc = "returned"

\* main() has exited after a real run (not --init, not a parse error)
RealRunExited ==
    pc = "exit" /\ ~args_init /\ config_file.state = "valid"

\* the call a step of a loop has just appended to the trace
LastCall ==
    calls'[Len(calls')]

RetentionOf(cfg) ==
    IF cfg.retention_days = <<>> THEN 7 ELSE cfg.retention_days[1]

\* C1: when run_backup returns, a target whose `enabled` is false or missing
\* has produced no file and is counted neither as a success nor as a
\* failure: the two counts add up to the number of enabled targets, and a
\* run with every target disabled returns (0, 0) and adds no file.
C1_DisabledTargetsNotCounted ==
    RunReturned =>
        /\ \A k \in TargetCalls :
             ~Enabled(TargetOf(calls[k])) =>
                 (~calls[k].result.ok /\ calls[k].dest = NoPath)
        /\ success_count + fail_count
             = Cardinality(EnabledIn(config.websites))
               + Cardinality(EnabledIn(config.databases))
        /\ (EnabledIn(config.websites) = {} /\ EnabledIn(config.databases) = {}) =>
             /\ success_count = 0
             /\ fail_count = 0
             /\ DOMAIN files \subseteq DOMAIN InitialDir \cup {LogsDir}

\* C2: once a dump that failed has returned, its destination file does not
\* exist in backup_dir, whichever way it failed (the dump utility or gzip
\* missing included).
C2_NoFileLeftByFailedDump ==
    (pc \in {"databases", "cleanup"} /\ calls # <<>>) =>
        LET c == calls[Len(calls)]
        IN  (c.fn = "backup_database" /\ ~c.result.ok /\ c.dest # NoPath) =>
                c.dest \notin DOMAIN files

\* C3: when the dump utility and gzip both started, the dump function has
\* waited for both before it decides; it returns a path exactly when both
\* return codes are zero; a failure is counted in fail_count only and leaves
\* no destination file, a success is counted in success_count only.
C3_BothStagesDecideTheDump ==
    [][pc = "databases" =>
         (Cardinality(LastCall.started) = 2 =>
            /\ LastCall.reaped = LastCall.started
            /\ Len(LastCall.codes) = 2
            /\ LastCall.result.ok <=> (LastCall.codes[1] = 0 /\ LastCall.codes[2] = 0)
            /\ LastCall.result.ok =>
                 /\ success_count' = success_count + 1
                 /\ fail_count' = fail_count
                 /\ LastCall.result.path \in DOMAIN files'
            /\ ~LastCall.result.ok =>
                 /\ fail_count' = fail_count + 1
                 /\ success_count' = success_count
                 /\ LastCall.dest \notin DOMAIN files')]_vars

C3_Witness ==
    \E k \in TargetCalls :
        /\ calls[k].codes = <<0, 1>>
        /\ ~calls[k].result.ok
        /\ calls[k].dest \notin DOMAIN files
        /\ fail_count = 1

\* C4: the sweep deletes an entry of backup_dir exactly when it is a regular
\* file, its suffix is .gz, .sql or .tar, and its age at the sweep is more
\* than retention_days * 86400 seconds; every other entry is left as it
\* was.  So a recognized file dated retention_days + 1 days back is deleted
\* and one dated retention_days - 1 days back survives.
C4_SweepDeletesExactlyTheExpired ==
    [][pc = "cleanup" =>
         /\ DOMAIN files' \subseteq DOMAIN files
         /\ \A n \in DOMAIN files :
              LET age == now' - files[n].mtime
                  recognized ==
                      /\ files[n].kind = "file"
                      /\ n.exts # <<>>
                      /\ n.exts[Len(n.exts)] \in {"gz", "sql", "tar"}
                  limit == RetentionOf(config) * 86400 * TicksPerSecond
              IN  /\ (recognized /\ age > limit) <=> n \notin DOMAIN files'
                  /\ n \in DOMAIN files' => files'[n] = files[n]
                  /\ (recognized /\ age = limit + 86400 * TicksPerSecond) =>
                         n \notin DOMAIN files'
                  /\ (recognized /\ age = limit - 86400 * TicksPerSecond) =>
                         n \in DOMAIN files']_vars

C4_Witness ==
    /\ RunReturned
    /\ OldArchive \notin DOMAIN files
    /\ SqlDump \in DOMAIN files
    /\ now - files[SqlDump].mtime >= RetentionOf(config) * 86400 * TicksPerSecond
    /\ {NotesFile, Readme, GzDir, LogsDir} \subseteq DOMAIN files

\* the calls run_backup makes on a configuration, in order
ExpectedCalls(cfg) ==
    [k \in 1..Len(cfg.websites) |-> <<"backup_website", k>>]
    \o [k \in 1..Len(cfg.databases) |-> <<"backup_database", k>>]
    \o <<<<"cleanup_old_backups", 0>>>>

MadeCalls ==
    [k \in 1..Len(calls) |-> <<calls[k].fn, calls[k].idx>>]

\* C5: a run calls backup_website once for each website in listed order,
\* then backup_database once for each database in listed order, then the
\* sweep once, whatever the targets return; the sweep changes neither count.
C5_EveryTargetThenOneSweep ==
    /\ [](/\ Len(MadeCalls) <= Len(ExpectedCalls(config))
          /\ MadeCalls = SubSeq(ExpectedCalls(config), 1, Len(MadeCalls))
          /\ (RunReturned \/ RealRunExited) => MadeCalls = ExpectedCalls(config))
    /\ [][pc = "cleanup" =>
            (success_count' = success_count /\ fail_count' = fail_count)]_vars

C5_Witness ==
    /\ RunReturned
    /\ Len(calls) = 3
    /\ Enabled(TargetOf(calls[1]))
    /\ ~calls[1].result.ok
    /\ calls[2].result.ok

\* the types backup_database supports, in lower case
SupportedTypes == {"mysql", "mariadb", "postgresql", "postgres"}

\* C6: for an enabled database whose type is, case-insensitively, none of
\* mysql, mariadb, postgresql, postgres, the call creates no file, starts no
\* process, and adds one to fail_count and nothing to success_count.
C6_UnsupportedTypeFailsCleanly ==
    [][(/\ pc = "databases"
        /\ Enabled(config.databases[i])
        /\ config.databases[i].type # Absent
        /\ Lower(config.databases[i].type) \notin SupportedTypes) =>
         /\ files' = files
         /\ LastCall.started = {}
         /\ ~LastCall.result.ok
         /\ fail_count' = fail_count + 1
         /\ success_count' = success_count]_vars

C6_Witness ==
    \E k \in TargetCalls :
        /\ calls[k].fn = "backup_database"
        /\ Enabled(TargetOf(calls[k]))
        /\ TargetOf(calls[k]).type = "Oracle"
        /\ fail_count = 1

\* a target of the run failed: it was enabled and its call returned None
SomeTargetFailed ==
    \E k \in TargetCalls : Enabled(TargetOf(calls[k])) /\ ~calls[k].result.ok

\* C7: a real run exits with 1 exactly when some target failed and with 0
\* otherwise; --init exits with 0 and processes no target.
C7_ExitCodeTellsFailure ==
    /\ RealRunExited => (exit_code = 1 <=> SomeTargetFailed)
    /\ RealRunExited => exit_code \in {0, 1}
    /\ (pc = "exit" /\ args_init /\ config_file.state = "valid") =>
           (exit_code = 0 /\ calls = <<>>)

\* C8: for an enabled website whose path does not exist, the call creates no
\* file and adds one to fail_count and nothing to success_count.
C8_MissingPathFailsCleanly ==
    [][(/\ pc = "websites"
        /\ Enabled(config.websites[i])
        /\ config.websites[i].path \notin ExistingPaths) =>
         /\ files' = files
         /\ ~LastCall.result.ok
         /\ fail_count' = fail_count + 1
         /\ success_count' = success_count]_vars

C8_Witness ==
    \E k \in TargetCalls :
        /\ calls[k].fn = "backup_website"
        /\ Enabled(TargetOf(calls[k]))
        /\ TargetOf(calls[k]).path = "/srv/gone"
        /\ fail_count = 1

\* the paths the targets counted as successes returned
SuccessPaths ==
    {calls[k].result.path : k \in {j \in TargetCalls : calls[j].result.ok}}

\* C9 as claimed: the sweep at the end of a run never deletes an artifact
\* created earlier in that run, for any retention_days >= 0.
C9_SweepKeepsRunArtifacts ==
    [][pc = "cleanup" =>
         \A p \in SuccessPaths : p \in DOMAIN files => p \in DOMAIN files']_vars

\* C9 as amended: the sweep at the end of a run never deletes an artifact
\* created earlier in that run whose age at the sweep is at most
\* retention_days * 86400 seconds.
C9_SweepKeepsRunArtifactsWithinRetention ==
    [][pc = "cleanup" =>
         \A p \in SuccessPaths :
             (/\ p \in DOMAIN files
              /\ now' - files[p].mtime <= RetentionOf(config) * 86400 * TicksPerSecond) =>
                 (p \in DOMAIN files' /\ files'[p] = files[p])]_vars

C9_Witness ==
    /\ RunReturned
    /\ RetentionOf(config) = 1
    /\ \E p \in SuccessPaths :
         /\ p \in DOMAIN files
         /\ now - files[p].mtime > 0
    /\ OldArchive \notin DOMAIN files

\* C10: two targets of one run that are both counted as successes wrote to
\* different paths, so before the sweep the run has left as many artifacts
\* as it counts successes.
C10_SuccessesHaveDistinctPaths ==
    pc = "cleanup" =>
        /\ \A j, k \in TargetCalls :
             (j < k /\ calls[j].result.ok /\ calls[k].result.ok) =>
                 calls[j].result.path # calls[k].result.path
        /\ Cardinality(SuccessPaths) = success_count

====
